---------------------------- MODULE Spec2Model ----------------------------
(***************************************************************************)
(* Model of the ESPA order / poll / download / unpack scripts:             *)
(*   download_script/level2_order_download.py  (ordering run, poller)      *)
(*   download_script/resume_download.py        (resume run, poller copy)   *)
(*   download_script/unpack_scenes.py          (unpack run)                *)
(*                                                                         *)
(* The module holds one state machine per entry point.  Spec is the status *)
(* poller (start_check_download / check_n_download), LiveSpec is the same  *)
(* machine with the fairness of a sequential program that always takes its *)
(* next step.                                                              *)
(*                                                                         *)
(* Python values are represented as follows: a list is a sequence, a str   *)
(* that the code takes apart is a sequence of one-character strings, an    *)
(* opaque str is a TLA+ string, None is the empty tuple and a value v that *)
(* may be None is the 1-tuple <<v>>.                                       *)
(***************************************************************************)
EXTENDS Integers, Sequences, FiniteSets, TLC

VARIABLES
    pc,                         \* position of the status poller
    ordered_items_to_download,  \* argument of the current check_n_download call
    items_not_complete,         \* local list built by the last finished cycle
    item_status_resp,           \* last value returned by espa_api('item-status/..')
    queries,                    \* observer: status queries issued in this run
    downloads,                  \* observer: download_file calls per item name
    listing,                    \* observer: names of the initial listing
    history,                    \* observer: what each poll cycle was told
    repeated,                   \* observer: some poll cycle's list named an item twice
    \* define_order
    available_products,         \* value returned by espa_api('available-products')
    desired_sensors_list,       \* argument desired_sensors_list
    filtered_order,             \* the dict define_order builds and returns
    order_pc,                   \* "idle", "call", "returned" or the exception raised
    \* extract_products
    catalog,                    \* open(fn).readlines()
    path_row,                   \* argument path_row
    ymd1,                       \* argument ymd1
    ymd2,                       \* argument ymd2
    result,                     \* the list extract_products returns
    filter_pc,                  \* "idle", "call", "returned" or the exception raised
    \* untar_scenes
    archives,                   \* what each *.tar.gz of the source folder holds
    tar_files,                  \* glob.glob(source_folder + '/*.tar.gz')
    next_tar,                   \* position of "for tar_filepath in tar_files"
    source_files,               \* archives present in the source folder
    dirs,                       \* directories that exist: the target folder and below
    content,                    \* what has been extracted into each scene folder
    outcome,                    \* observer: how each archive's iteration ended
    unpack_pc,                  \* "idle", "loop", "returned" or "raised"
    \* resume_download
    jobs_file,                  \* text of the jobs file
    order_ids,                  \* the list order_ids
    next_order,                 \* position of "for order_id in reversed(order_ids)"
    started,                    \* observer: the order ids start_check_download got
    resume_pc                   \* "idle", "read", "loop", "returned" or "raised"

pollerVars == <<pc, ordered_items_to_download, items_not_complete,
                item_status_resp, queries, downloads, listing, history, repeated>>

orderVars == <<available_products, desired_sensors_list, filtered_order, order_pc>>

filterVars == <<catalog, path_row, ymd1, ymd2, result, filter_pc>>

unpackVars == <<archives, tar_files, next_tar, source_files, dirs, content,
                outcome, unpack_pc>>

resumeVars == <<jobs_file, order_ids, next_order, started, resume_pc>>

vars == <<pollerVars, orderVars, filterVars, unpackVars, resumeVars>>

-----------------------------------------------------------------------------
(* Bounds of the model                                                     *)

\* longest item-status list the remote service returns
MaxRespLen == 2
\* the observers queries and downloads count up to MaxCount and stay there
MaxCount == 5
\* poll cycles recorded in history; later cycles are not recorded
MaxHistory == 3
\* longest list of product identifiers in an available-products response
MaxInputs == 2
\* most lines of a catalog file
MaxLines == 2
\* most archives in the source folder
MaxArchives == 2
\* most lines of a jobs file
MaxJobs == 2

Names == {"a", "b"}
Statuses == {"pending", "complete", "unavailable"}

-----------------------------------------------------------------------------
(* Helpers                                                                 *)

Range(s) == {s[i] : i \in 1..Len(s)}

SeqsUpTo(S, n) == UNION {[1..k -> S] : k \in 0..n}

None == <<>>

Some(v) == <<v>>

Bump(n) == IF n < MaxCount THEN n + 1 ELSE n

\* [x['name'] for x in items]
NamesOf(items) == [i \in 1..Len(items) |-> items[i].name]

-----------------------------------------------------------------------------
(* The remote service                                                      *)

\* The items an order holds on the service, with the statuses it can report.
Items(order) == [name : order, status : Statuses]

ItemLists(order) == SeqsUpTo(Items(order), MaxRespLen)

\* What espa_api returns for 'item-status/<order_id>' of an order: the parsed
\* list, or None when raise_for_status() raised.
espa_api(order) == {None} \cup {Some(l) : l \in ItemLists(order)}

\* The responses for an order that holds every item.
Responses == espa_api(Names)

-----------------------------------------------------------------------------
(* Status poller: level2_order_download.py 76-125, resume_download.py      *)
(* 58-107 (the same code).  download_file is taken to return; what it      *)
(* writes is observed as one download of the item's name.                  *)

\* Variants of the loop body, each a slip the code could have made.
\* A complete item is downloaded and still kept for the next cycle.
LoopBodyKeepsComplete(item, todo, st) ==
    IF item.name \in Range(todo)
    THEN IF item.status = "complete"
         THEN [st EXCEPT !.dl[item.name] = Bump(@),
                         !.inc = Append(@, item.name)]
         ELSE [st EXCEPT !.inc = Append(@, item.name)]
    ELSE st

\* The download is started before the status is looked at.
LoopBodyDownloadsFirst(item, todo, st) ==
    IF item.name \in Range(todo)
    THEN IF item.status = "complete"
         THEN [st EXCEPT !.dl[item.name] = Bump(@)]
         ELSE [st EXCEPT !.dl[item.name] = Bump(@),
                         !.inc = Append(@, item.name)]
    ELSE st

\* The membership test against ordered_items_to_download is missing.
LoopBodyNoMembership(item, todo, st) ==
    IF item.status = "complete"
    THEN [st EXCEPT !.dl[item.name] = Bump(@)]
    ELSE [st EXCEPT !.inc = Append(@, item.name)]

\* An item that is not complete is not kept.
LoopBodyDropsPending(item, todo, st) ==
    IF item.name \in Range(todo) /\ item.status = "complete"
    THEN [st EXCEPT !.dl[item.name] = Bump(@)]
    ELSE st

\* A listed item that is not awaited and not complete is awaited from now on.
LoopBodyAwaitsListed(item, todo, st) ==
    IF item.status = "complete"
    THEN IF item.name \in Range(todo)
         THEN [st EXCEPT !.dl[item.name] = Bump(@)]
         ELSE st
    ELSE [st EXCEPT !.inc = Append(@, item.name)]

\* The body of "for item in item_status_resp[order_id]" for one item.
\* st.dl observes download_file, st.inc is items_not_complete.
LoopBody(item, todo, st) ==
    IF item.name \in Range(todo)
    THEN IF item.status = "complete"
         THEN [st EXCEPT !.dl[item.name] = Bump(@)]
         ELSE [st EXCEPT !.inc = Append(@, item.name)]
    ELSE st

RECURSIVE ForItems(_, _, _, _)
ForItems(items, k, todo, st) ==
    IF k > Len(items) THEN st
    ELSE ForItems(items, k + 1, todo, LoopBody(items[k], todo, st))

\* What a poll cycle was told, kept for responses that list one item.
Void == [name |-> "-", status |-> "void"]

HistoryEntry(resp) ==
    IF resp # None /\ Len(resp[1]) = 1 THEN resp[1][1] ELSE Void

Record(h, resp) ==
    IF Len(h) < MaxHistory THEN Append(h, HistoryEntry(resp)) ELSE h

\* The list names some item more than once.
HasRepeat(items) ==
    \E i, j \in 1..Len(items) : i # j /\ items[i].name = items[j].name

PollerInit ==
    /\ ordered_items_to_download = <<>>
    /\ items_not_complete = <<>>
    /\ item_status_resp = None
    /\ queries = 0
    /\ downloads = [n \in Names |-> 0]
    /\ listing = <<>>
    /\ history = <<>>
    /\ repeated = FALSE

\* start_check_download: one status query, then the first check_n_download
\* call with the names listed.  Subscripting None raises TypeError.
start_check_download(responses) ==
    /\ pc = "start"
    /\ \E resp \in responses :
        /\ item_status_resp' = resp
        /\ queries' = Bump(queries)
        /\ IF resp = None
           THEN /\ pc' = "raised"
                /\ UNCHANGED <<ordered_items_to_download, listing>>
           ELSE /\ pc' = "check"
                /\ ordered_items_to_download' = NamesOf(resp[1])
                /\ listing' = NamesOf(resp[1])
    /\ UNCHANGED <<items_not_complete, downloads, history, repeated>>
    /\ UNCHANGED <<orderVars, filterVars, unpackVars, resumeVars>>

\* check_n_download: one poll cycle.  A non-empty items_not_complete ends in
\* time.sleep(300) and the recursive call, whose argument it becomes.
check_n_download(responses) ==
    /\ pc = "check"
    /\ \E resp \in responses :
        /\ item_status_resp' = resp
        /\ queries' = Bump(queries)
        /\ history' = Record(history, resp)
        /\ repeated' = (repeated \/ (resp # None /\ HasRepeat(resp[1])))
        /\ IF resp = None
           THEN /\ pc' = "raised"
                /\ items_not_complete' = <<>>
                /\ UNCHANGED <<ordered_items_to_download, downloads>>
           ELSE LET st == ForItems(resp[1], 1, ordered_items_to_download,
                                   [dl |-> downloads, inc |-> <<>>])
                IN  /\ downloads' = st.dl
                    /\ items_not_complete' = st.inc
                    /\ IF Len(st.inc) > 0
                       THEN /\ pc' = "check"
                            /\ ordered_items_to_download' = st.inc
                       ELSE /\ pc' = "done"
                            /\ UNCHANGED ordered_items_to_download
    /\ UNCHANGED listing
    /\ UNCHANGED <<orderVars, filterVars, unpackVars, resumeVars>>

-----------------------------------------------------------------------------
(* Order builder: level2_order_download.py 128-187                         *)
(*                                                                         *)
(* A product identifier is the pair of its first four characters, which    *)
(* define_order slices off, and the rest.  A dict is a function on its     *)
(* keys.                                                                   *)

EmptyDict == [k \in {} |-> k]

Without(d, key) == [k \in DOMAIN d \ {key} |-> d[k]]

Scenes == {<<"LT05", "1">>, <<"LE07", "1">>}

SceneLists == SeqsUpTo(Scenes, MaxInputs)

\* the 'products' a family carries in the available-products response
AvailableTypes == <<"l1", "toa", "bt", "sr">>

FamilyKeys == {"tm5_collection", "etm7_collection"}

KeyOrder == <<"tm5_collection", "etm7_collection", "oli8_collection",
              "date_restricted", "not_implemented">>

\* Either no entry for key, or one of the entries key :> v.
Optional(key, values) == {EmptyDict} \cup {key :> v : v \in values}

FamilyValues == [inputs : SceneLists, products : {AvailableTypes}]

\* The parsed available-products responses: sensor families with their
\* inputs, and the categories the service reports problems under.
AvailableProducts ==
    { tm @@ etm @@ oli @@ dr @@ ni :
        tm  \in Optional("tm5_collection", FamilyValues),
        etm \in Optional("etm7_collection", FamilyValues),
        oli \in Optional("oli8_collection",
                         {[inputs |-> <<<<"LO08", "1">>>>, products |-> AvailableTypes]}),
        dr  \in Optional("date_restricted", [sr : SceneLists]),
        ni  \in Optional("not_implemented", {<<"LM05">>}) }

DesiredLists ==
    { SelectSeq(KeyOrder, LAMBDA k : k \in S) : S \in SUBSET Range(KeyOrder) }

prod_types == <<"sr", "bt", "pixel_qa">>

collection == ("LT05" :> "tm5_collection") @@ ("LE07" :> "etm7_collection") @@
              ("LC08" :> "olitirs8_collection") @@ ("LO08" :> "oli8_collection")

problems == <<"date_restricted", "not_implemented", "oli8_collection">>

\* for desired_sensor in desired_sensors_list: copy the entries available
FilterDesired(desired, available) ==
    [k \in Range(desired) \cap DOMAIN available |-> available[k]]

\* "for a_problem in problems": st.order is filtered_order, st.scenes is
\* problem_scenes.
RECURSIVE DeleteProblems(_, _)
DeleteProblems(i, st) ==
    IF i > Len(problems) THEN st
    ELSE LET a_problem == problems[i] IN
         IF a_problem \in DOMAIN st.order
         THEN DeleteProblems(i + 1,
                  [order |-> Without(st.order, a_problem),
                   scenes |-> IF a_problem = "date_restricted"
                              THEN st.scenes \o st.order[a_problem].sr
                              ELSE st.scenes])
         ELSE DeleteProblems(i + 1, st)

\* list.remove(x): the list without the first x
RECURSIVE Remove(_, _)
Remove(l, x) ==
    IF l = <<>> THEN <<>>
    ELSE IF Head(l) = x THEN Tail(l)
    ELSE <<Head(l)>> \o Remove(Tail(l), x)

\* The family a problem scene is pruned from: the one its prefix names.
ProblemCollection(a_problem_scene) == collection[a_problem_scene[1]]

\* "for a_problem_scene in problem_scenes": st.order is filtered_order,
\* st.err the exception that ended the loop.
RECURSIVE DeleteProblemScenes(_, _, _)
DeleteProblemScenes(i, problem_scenes, st) ==
    IF i > Len(problem_scenes) \/ st.err # "none" THEN st
    ELSE LET a_problem_scene == problem_scenes[i] IN
         IF a_problem_scene[1] \notin DOMAIN collection
         THEN [st EXCEPT !.err = "KeyError"]
         ELSE LET problem_collection == ProblemCollection(a_problem_scene) IN
              IF problem_collection \notin DOMAIN st.order
              THEN [st EXCEPT !.err = "KeyError"]
              ELSE IF a_problem_scene \notin Range(st.order[problem_collection].inputs)
              THEN [st EXCEPT !.err = "ValueError"]
              ELSE DeleteProblemScenes(i + 1, problem_scenes,
                       [st EXCEPT !.order[problem_collection].inputs =
                                       Remove(@, a_problem_scene)])

\* Variant: the product types are attached whatever the input list holds.
GetsProductsAlways(family) == TRUE

\* if isinstance(filtered_order[sensor], dict) and
\*    filtered_order[sensor].get('inputs'): every value left at this point
\* is a family dict, and get('inputs') is true of a non-empty list.
GetsProducts(family) == family.inputs # <<>>

\* "for sensor in filtered_order.keys()"
AttachProducts(order) ==
    [k \in DOMAIN order |->
        IF GetsProducts(order[k])
        THEN [order[k] EXCEPT !.products = prod_types]
        ELSE order[k]]

\* define_order, from the available-products response on: the dict it
\* returns, or the exception that leaves it.
define_order(desired, response) ==
    IF response = None THEN [order |-> EmptyDict, outcome |-> "TypeError"]
    ELSE LET filtered == FilterDesired(desired, response[1])
             cleaned == DeleteProblems(1, [order |-> filtered, scenes |-> <<>>])
             pruned == DeleteProblemScenes(1, cleaned.scenes,
                                           [order |-> cleaned.order, err |-> "none"])
         IN  IF pruned.err # "none"
             THEN [order |-> pruned.order, outcome |-> pruned.err]
             ELSE [order |-> AttachProducts(pruned.order) @@ ("format" :> "gtiff"),
                   outcome |-> "returned"]

OrderIdle ==
    /\ available_products = None
    /\ desired_sensors_list = <<>>
    /\ filtered_order = EmptyDict
    /\ order_pc = "idle"

OrderInit ==
    /\ available_products \in {None} \cup {Some(r) : r \in AvailableProducts}
    /\ desired_sensors_list \in DesiredLists
    /\ filtered_order = EmptyDict
    /\ order_pc = "call"

DefineOrder ==
    /\ order_pc = "call"
    /\ LET r == define_order(desired_sensors_list, available_products)
       IN  /\ filtered_order' = r.order
           /\ order_pc' = r.outcome
    /\ UNCHANGED <<available_products, desired_sensors_list>>
    /\ UNCHANGED <<pollerVars, filterVars, unpackVars, resumeVars>>

-----------------------------------------------------------------------------
(* Product filter: level2_order_download.py 210-226                        *)
(*                                                                         *)
(* A str is a sequence of one-character strings.                           *)

\* code points, for the comparison of str values
Ord == ("\n" :> 10) @@ (" " :> 32) @@ ("0" :> 48) @@ ("1" :> 49) @@
       ("L" :> 76) @@ ("_" :> 95)

Whitespace == {"\n", " "}

\* a <= b on str: the first differing character decides, a prefix is smaller
RECURSIVE StrLeq(_, _)
StrLeq(a, b) ==
    IF a = <<>> THEN TRUE
    ELSE IF b = <<>> THEN FALSE
    ELSE IF Head(a) = Head(b) THEN StrLeq(Tail(a), Tail(b))
    ELSE Ord[Head(a)] < Ord[Head(b)]

\* sub in s
Contains(s, sub) ==
    \E i \in 0..(Len(s) - Len(sub)) : SubSeq(s, i + 1, i + Len(sub)) = sub

RECURSIVE LStrip(_)
LStrip(s) ==
    IF s # <<>> /\ Head(s) \in Whitespace THEN LStrip(Tail(s)) ELSE s

RECURSIVE RStrip(_)
RStrip(s) ==
    IF s # <<>> /\ s[Len(s)] \in Whitespace
    THEN RStrip(SubSeq(s, 1, Len(s) - 1)) ELSE s

\* s.strip()
Strip(s) == RStrip(LStrip(s))

\* s.split(sep), sep one character: cur is the token being read
RECURSIVE SplitFrom(_, _, _)
SplitFrom(s, sep, cur) ==
    IF s = <<>> THEN <<cur>>
    ELSE IF Head(s) = sep THEN <<cur>> \o SplitFrom(Tail(s), sep, <<>>)
    ELSE SplitFrom(Tail(s), sep, Append(cur, Head(s)))

Split(s, sep) == SplitFrom(s, sep, <<>>)

\* sep.join(tokens)
RECURSIVE Join(_, _)
Join(tokens, sep) ==
    IF tokens = <<>> THEN <<>>
    ELSE IF Len(tokens) = 1 THEN tokens[1]
    ELSE tokens[1] \o <<sep>> \o Join(Tail(tokens), sep)

\* Lines of a catalog file: '_'-joined tokens and the line break the writer
\* ends every row with.  The header LANDSAT_PRODUCT_ID has 3 tokens, an
\* identifier has the date as its 4th token and may have more; all begin
\* with the letter L.
TokenCounts == {3, 4, 5}

CatalogLines ==
    { Join(<<<<"L">>>> \o t, "_") \o <<"\n">> :
        t \in UNION {[1..(n - 1) -> {<<"0">>, <<"1">>}] : n \in TokenCounts} }

Catalogs == SeqsUpTo(CatalogLines, MaxLines)

PathRows == {<<>>, <<"0">>, <<"1", "_", "0">>}

Dates == {<<"0">>, <<"0", "1">>, <<"1">>}

\* Variant: the end date is excluded.
InRangeExclusive(lo, d, hi) == StrLeq(lo, d) /\ StrLeq(d, hi) /\ d # hi

\* ymd1 <= d <= ymd2
InRange(lo, d, hi) == StrLeq(lo, d) /\ StrLeq(d, hi)

\* lines = [line.strip() for line in open(fn).readlines() if path_row in line]
MatchingLines(file, key) ==
    LET kept == SelectSeq(file, LAMBDA line : Contains(line, key))
    IN  [i \in 1..Len(kept) |-> Strip(kept[i])]

\* "for line in lines": st.result is result, st.err the exception raised by
\* line.split('_')[3] on a line of fewer than 4 tokens.
RECURSIVE ForLines(_, _, _, _, _)
ForLines(lines, i, lo, hi, st) ==
    IF i > Len(lines) \/ st.err # "none" THEN st
    ELSE LET tokens == Split(lines[i], "_") IN
         IF Len(tokens) < 4
         THEN [st EXCEPT !.err = "IndexError"]
         ELSE ForLines(lines, i + 1, lo, hi,
                       IF InRange(lo, tokens[4], hi)
                       THEN [st EXCEPT !.result = Append(@, lines[i])]
                       ELSE st)

extract_products(file, key, lo, hi) ==
    LET st == ForLines(MatchingLines(file, key), 1, lo, hi,
                       [result |-> <<>>, err |-> "none"])
    IN  IF st.err = "none"
        THEN [result |-> st.result, outcome |-> "returned"]
        ELSE [result |-> <<>>, outcome |-> st.err]

FilterIdle ==
    /\ catalog = <<>>
    /\ path_row = <<>>
    /\ ymd1 = <<>>
    /\ ymd2 = <<>>
    /\ result = <<>>
    /\ filter_pc = "idle"

FilterInit ==
    /\ catalog \in Catalogs
    /\ path_row \in PathRows
    /\ ymd1 \in Dates
    /\ ymd2 \in Dates
    /\ result = <<>>
    /\ filter_pc = "call"

ExtractProducts ==
    /\ filter_pc = "call"
    /\ LET r == extract_products(catalog, path_row, ymd1, ymd2)
       IN  /\ result' = r.result
           /\ filter_pc' = r.outcome
    /\ UNCHANGED <<catalog, path_row, ymd1, ymd2>>
    /\ UNCHANGED <<pollerVars, orderVars, unpackVars, resumeVars>>

-----------------------------------------------------------------------------
(* Archive unpacker: unpack_scenes.py 10-40                                *)
(*                                                                         *)
(* The name of an archive's xml member is the pair of its characters       *)
(* 10..15, the tile, and its acquisition; its stem is the scene name.  A   *)
(* directory is the path below the target folder: <<>> the target folder,  *)
(* <<tile>> a tile folder, <<tile, scene>> a scene folder.  Archives are   *)
(* numbered in the order glob returns them.                                *)

XmlNames == {<<"t1", "d1">>, <<"t1", "d2">>, <<"t2", "d1">>}

NoXml == <<"-", "-">>

\* What an archive does when it is unpacked:
\*   "bad_tar"   tarfile.open raises
\*   "no_xml"    no member name ends in xml: [...][0] raises IndexError
\*   "ok"        extractall writes every member and returns
\*   "short"     the archive ends early at a member boundary: extractall
\*               writes the members there are and returns
\*   "broken"    extractall raises part-way
Archives ==
    [kind : {"ok", "short", "broken"}, xml : XmlNames] \cup
    [kind : {"bad_tar", "no_xml"}, xml : {NoXml}]

\* xml_folder = xml[10:16]; path_row_folder = target_folder + '/' + xml_folder
path_row_folder(xml) == <<xml[1]>>

\* scene_name = xml.split('.')[0]; out_folder = path_row_folder + '/' + scene_name
out_folder(xml) == <<xml[1], xml>>

ScenePaths == {out_folder(x) : x \in XmlNames}

TilePaths == {path_row_folder(x) : x \in XmlNames}

\* Directory trees the target folder can hold when the run starts.
DirTrees ==
    {{}} \cup
    { {<<>>} \cup t \cup sc :
        t \in SUBSET TilePaths,
        sc \in SUBSET ScenePaths } 

Parent(path) == SubSeq(path, 1, Len(path) - 1)

WellFormedTree(d) == \A q \in d : q = <<>> \/ Parent(q) \in d

\* Variant: only tarfile's own errors are handled.
HandlesTarErrorsOnly(error) == error = "ReadError"

\* "except:" handles every exception.
Handles(error) == TRUE

\* Variant: the archive is unlinked whether or not extractall raised.
UnlinkedAlways(kind) == TRUE

\* os.unlink(tar_filepath) follows tf.extractall(out_folder) in the try
\* block: it runs when extractall has returned.
Unlinked(kind) == kind \in {"ok", "short"}

\* One iteration of "for tar_filepath in tar_files" on archive a, from the
\* directories d: the directories and content it leaves, whether the archive
\* was unlinked, how it ended and the exception it raised, if any.
Iteration(a, d, c) ==
    IF a.kind = "bad_tar"
    THEN [dirs |-> d, content |-> c, unlinked |-> FALSE,
          ended |-> "open_failed", error |-> "ReadError"]
    ELSE IF a.kind = "no_xml"
    THEN [dirs |-> d, content |-> c, unlinked |-> FALSE,
          ended |-> "no_xml", error |-> "IndexError"]
    ELSE IF path_row_folder(a.xml) \notin d /\ <<>> \notin d
    THEN \* os.mkdir(path_row_folder) below a target folder that is missing
         [dirs |-> d, content |-> c, unlinked |-> FALSE,
          ended |-> "mkdir_failed", error |-> "OSError"]
    ELSE LET d1 == d \cup {path_row_folder(a.xml)} IN
         IF out_folder(a.xml) \in d1
         THEN \* os.mkdir(out_folder) of a folder that exists
              [dirs |-> d1, content |-> c, unlinked |-> FALSE,
               ended |-> "mkdir_failed", error |-> "OSError"]
         ELSE LET d2 == d1 \cup {out_folder(a.xml)}
                  c2 == [c EXCEPT ![out_folder(a.xml)] =
                            IF a.kind = "ok" THEN "full" ELSE "partial"]
              IN  [dirs |-> d2, content |-> c2, unlinked |-> Unlinked(a.kind),
                   ended |-> IF a.kind = "broken" THEN "extract_failed"
                             ELSE "extracted",
                   error |-> IF a.kind = "broken" THEN "OSError" ELSE "none"]

UnpackIdle ==
    /\ archives = <<>>
    /\ tar_files = <<>>
    /\ next_tar = 0
    /\ source_files = {}
    /\ dirs = {}
    /\ content = [q \in ScenePaths |-> "none"]
    /\ outcome = <<>>
    /\ unpack_pc = "idle"

\* A scene folder that exists when the run starts was filled by an earlier
\* run.
UnpackInit ==
    /\ archives \in SeqsUpTo(Archives, MaxArchives)
    /\ tar_files = [i \in 1..Len(archives) |-> i]
    /\ next_tar = 1
    /\ source_files = 1..Len(archives)
    /\ dirs \in {d \in DirTrees : WellFormedTree(d)}
    /\ content = [q \in ScenePaths |-> IF q \in dirs THEN "full" ELSE "none"]
    /\ outcome = [i \in 1..Len(archives) |-> "todo"]
    /\ unpack_pc = "loop"

\* One archive of the loop of untar_scenes.
UntarScene ==
    /\ unpack_pc = "loop"
    /\ next_tar <= Len(tar_files)
    /\ LET tar_filepath == tar_files[next_tar]
           it == Iteration(archives[tar_filepath], dirs, content)
       IN  /\ dirs' = it.dirs
           /\ content' = it.content
           /\ source_files' = IF it.unlinked THEN source_files \ {tar_filepath}
                              ELSE source_files
           /\ outcome' = [outcome EXCEPT ![tar_filepath] = it.ended]
           /\ IF it.error = "none" \/ Handles(it.error)
              THEN /\ next_tar' = next_tar + 1
                   /\ unpack_pc' = "loop"
              ELSE /\ next_tar' = next_tar
                   /\ unpack_pc' = "raised"
    /\ UNCHANGED <<archives, tar_files>>
    /\ UNCHANGED <<pollerVars, orderVars, filterVars, resumeVars>>

\* The loop is exhausted and untar_scenes returns.
UntarReturn ==
    /\ unpack_pc = "loop"
    /\ next_tar > Len(tar_files)
    /\ unpack_pc' = "returned"
    /\ UNCHANGED <<archives, tar_files, next_tar, source_files, dirs, content,
                   outcome>>
    /\ UNCHANGED <<pollerVars, orderVars, filterVars, resumeVars>>

-----------------------------------------------------------------------------
(* Resume run: resume_download.py 110-141                                  *)

\* The lines a text file yields when iterated: each ends with its line
\* break, except a last line that has none.  cur is the line being read.
RECURSIVE LinesFrom(_, _)
LinesFrom(text, cur) ==
    IF text = <<>> THEN (IF cur = <<>> THEN <<>> ELSE <<cur>>)
    ELSE IF Head(text) = "\n"
    THEN <<Append(cur, "\n")>> \o LinesFrom(Tail(text), <<>>)
    ELSE LinesFrom(Tail(text), Append(cur, Head(text)))

Lines(text) == LinesFrom(text, <<>>)

\* order_id = line[:-1]
WithoutLast(line) == SubSeq(line, 1, Len(line) - 1)

\* reversed(l)
Reversed(l) == [i \in 1..Len(l) |-> l[Len(l) + 1 - i]]

\* What a line of a jobs file holds: nothing, or an order id.
JobLines == {<<>>, <<"x">>, <<"y", "x">>}

\* Jobs files: lines joined by line breaks, the last line with or without
\* one.
JobsFiles ==
    { Join(l, "\n") \o end :
        l \in SeqsUpTo(JobLines, MaxJobs), end \in {<<>>, <<"\n">>} }

\* The orders of a resume run hold one item.
ResumeOrder == {"a"}

ResumeResponses == espa_api(ResumeOrder)

ResumeIdle ==
    /\ jobs_file = <<>>
    /\ order_ids = <<>>
    /\ next_order = 0
    /\ started = <<>>
    /\ resume_pc = "idle"

ResumeInit ==
    /\ jobs_file \in JobsFiles
    /\ order_ids = <<>>
    /\ next_order = 0
    /\ started = <<>>
    /\ resume_pc = "read"

\* The jobs file is read into order_ids.
ReadJobs ==
    /\ resume_pc = "read"
    /\ order_ids' = [i \in 1..Len(Lines(jobs_file)) |->
                        WithoutLast(Lines(jobs_file)[i])]
    /\ next_order' = 1
    /\ resume_pc' = "loop"
    /\ UNCHANGED <<jobs_file, started>>
    /\ UNCHANGED <<pollerVars, orderVars, filterVars, unpackVars>>

\* One iteration of "for order_id in reversed(order_ids)", entered when the
\* call of the iteration before has returned: a non-empty order_id starts the
\* status poller.
ResumeNext ==
    /\ resume_pc = "loop"
    /\ pc \in {"idle", "done"}
    /\ next_order <= Len(order_ids)
    /\ LET order_id == Reversed(order_ids)[next_order]
       IN  IF Len(order_id) > 0
           THEN /\ started' = Append(started, order_id)
                /\ pc' = "start"
                /\ ordered_items_to_download' = <<>>
                /\ items_not_complete' = <<>>
                /\ item_status_resp' = None
                /\ queries' = 0
                /\ downloads' = [n \in Names |-> 0]
                /\ listing' = <<>>
                /\ history' = <<>>
                /\ repeated' = FALSE
           ELSE /\ UNCHANGED started
                /\ UNCHANGED pollerVars
    /\ next_order' = next_order + 1
    /\ UNCHANGED <<jobs_file, order_ids, resume_pc>>
    /\ UNCHANGED <<orderVars, filterVars, unpackVars>>

\* The loop is exhausted, the last call has returned: resume_download returns.
ResumeReturn ==
    /\ resume_pc = "loop"
    /\ pc \in {"idle", "done"}
    /\ next_order > Len(order_ids)
    /\ resume_pc' = "returned"
    /\ UNCHANGED <<jobs_file, order_ids, next_order, started>>
    /\ UNCHANGED <<pollerVars, orderVars, filterVars, unpackVars>>

\* The TypeError of a failed status query leaves resume_download.
ResumeRaise ==
    /\ resume_pc = "loop"
    /\ pc = "raised"
    /\ resume_pc' = "raised"
    /\ UNCHANGED <<jobs_file, order_ids, next_order, started>>
    /\ UNCHANGED <<pollerVars, orderVars, filterVars, unpackVars>>

-----------------------------------------------------------------------------
(* Specifications                                                          *)

PollerIdle ==
    /\ pc = "idle"
    /\ PollerInit

Init ==
    /\ pc = "start"
    /\ PollerInit
    /\ OrderIdle
    /\ FilterIdle
    /\ UnpackIdle
    /\ ResumeIdle

Next ==
    \/ start_check_download(Responses)
    \/ check_n_download(Responses)

Spec == Init /\ [][Next]_vars

\* A sequential program takes its next step: the sleep ends and the next
\* query is issued.
LiveSpec == Spec /\ WF_vars(Next)

\* define_order applied to every response and desired-sensor list.
OrderSpecInit ==
    /\ PollerIdle
    /\ OrderInit
    /\ FilterIdle
    /\ UnpackIdle
    /\ ResumeIdle

OrderNext == DefineOrder

OrderSpec == OrderSpecInit /\ [][OrderNext]_vars

\* extract_products applied to every catalog, tile key and date pair.
FilterSpecInit ==
    /\ PollerIdle
    /\ OrderIdle
    /\ FilterInit
    /\ UnpackIdle
    /\ ResumeIdle

FilterNext == ExtractProducts

FilterSpec == FilterSpecInit /\ [][FilterNext]_vars

\* untar_scenes on every batch of archives and target folder.
UnpackSpecInit ==
    /\ PollerIdle
    /\ OrderIdle
    /\ FilterIdle
    /\ UnpackInit
    /\ ResumeIdle

UnpackNext ==
    \/ UntarScene
    \/ UntarReturn

UnpackSpec == UnpackSpecInit /\ [][UnpackNext]_vars

\* resume_download on every jobs file, with the pollers it starts.
ResumeSpecInit ==
    /\ PollerIdle
    /\ OrderIdle
    /\ FilterIdle
    /\ UnpackIdle
    /\ ResumeInit

ResumeSpecNext ==
    \/ ReadJobs
    \/ ResumeNext
    \/ ResumeReturn
    \/ ResumeRaise
    \/ start_check_download(ResumeResponses)
    \/ check_n_download(ResumeResponses)

ResumeSpec == ResumeSpecInit /\ [][ResumeSpecNext]_vars

-----------------------------------------------------------------------------
(* Claims about the status poller                                          *)

Working == Range(ordered_items_to_download)

\* C1 (as stated): in one run every item is downloaded at most once, for any
\* sequence of status responses, and a downloaded item's name is in the
\* working set of no later poll cycle.
C1_AtMostOnce_AnyResponse ==
    \A n \in Names :
        /\ downloads[n] <= 1
        /\ (pc = "check" /\ downloads[n] >= 1) => n \notin Working

\* C1 (amended): the same, for status responses that list each name at most
\* once.
C1_AtMostOnce ==
    ~repeated =>
        \A n \in Names :
            /\ downloads[n] <= 1
            /\ (pc = "check" /\ downloads[n] >= 1) => n \notin Working

\* "a" was downloaded in an earlier cycle and a later cycle awaits only "b".
C1_Witness ==
    /\ ~repeated
    /\ pc = "check"
    /\ queries = 3
    /\ downloads["a"] = 1
    /\ ordered_items_to_download = <<"b">>

\* The sole item n of an order is reported pending in poll cycles 1 and 2 and
\* complete in poll cycle 3.
PendingTwiceThenComplete(n) ==
    /\ listing = <<n>>
    /\ history = << [name |-> n, status |-> "pending"],
                    [name |-> n, status |-> "pending"],
                    [name |-> n, status |-> "complete"] >>

CompleteEntries(items, todo, n) ==
    Cardinality({i \in 1..Len(items) :
                    /\ items[i].name = n
                    /\ n \in todo
                    /\ items[i].status = "complete"})

Saturated(k) == IF k < MaxCount THEN k ELSE MaxCount

\* C7: a poll cycle queries the status list once; the next working set is
\* exactly the listed names that are awaited and not complete; awaited listed
\* items that are complete are downloaded in that cycle; listed items that
\* are not awaited are neither downloaded nor added.
C7_CyclePartition ==
    [][ (pc = "check" /\ item_status_resp' # None) =>
            LET items == item_status_resp'[1]
                todo == Range(ordered_items_to_download)
            IN  /\ queries' = Saturated(queries + 1)
                /\ Range(items_not_complete') =
                       {items[i].name : i \in
                           {j \in 1..Len(items) :
                               /\ items[j].name \in todo
                               /\ items[j].status # "complete"}}
                /\ \A n \in Names :
                       downloads'[n] =
                           Saturated(downloads[n] + CompleteEntries(items, todo, n))
                /\ pc' = "check" =>
                       ordered_items_to_download' = items_not_complete'
      ]_vars

\* One cycle that downloads the awaited complete "a" and ignores the listed
\* "b", which was never awaited.
C7_Witness ==
    /\ listing = <<"a">>
    /\ queries = 2
    /\ item_status_resp = Some(<< [name |-> "a", status |-> "complete"],
                                  [name |-> "b", status |-> "pending"] >>)
    /\ downloads["a"] = 1
    /\ downloads["b"] = 0
    /\ items_not_complete = <<>>
    /\ pc = "done"

\* n is in the initial listing, so the poller awaits it.
Awaited(n) == n \in Range(listing)

\* The last poll cycle's response reported n complete.
ReportedComplete(n) ==
    /\ queries >= 2
    /\ item_status_resp # None
    /\ \E i \in 1..Len(item_status_resp[1]) :
           item_status_resp[1][i] = [name |-> n, status |-> "complete"]

\* Every response so far, the listing included, lists n with a status other
\* than complete.
ReportedIncomplete(n) ==
    \/ pc = "start"
    \/ /\ item_status_resp # None
       /\ \E i \in 1..Len(item_status_resp[1]) :
              /\ item_status_resp[1][i].name = n
              /\ item_status_resp[1][i].status # "complete"

\* The poller has returned, or a failed status query has ended it.
Terminated == pc \in {"done", "raised"}

\* A cycle ends in the next cycle exactly when items_not_complete is not
\* empty, and the poller returns only from a cycle that leaves it empty.
C8_Recursion ==
    [][ /\ (pc = "check" /\ item_status_resp' # None) =>
               /\ pc' = "check" <=> items_not_complete' # <<>>
               /\ pc' = "done" <=> items_not_complete' = <<>>
               /\ pc' = "check" =>
                      ordered_items_to_download' = items_not_complete'
        /\ (pc # "done" /\ pc' = "done") =>
               (pc = "check" /\ items_not_complete' = <<>>)
      ]_vars

\* An item reported forever with a status other than complete keeps the
\* poller from ever terminating.
C8_NeverTerminates ==
    \A n \in Names : []ReportedIncomplete(n) => []~Terminated

-----------------------------------------------------------------------------
(* Claims about the order builder                                          *)

\* The sensor families of the returned order.
OrderFamilies == DOMAIN filtered_order \ {"format"}

Restricted ==
    IF available_products # None /\ "date_restricted" \in DOMAIN available_products[1]
    THEN Range(available_products[1]["date_restricted"].sr)
    ELSE {}

\* C3: an identifier listed under date_restricted in the availability
\* response is in no family's input list of the order define_order returns,
\* whatever the desired-sensor list, also when it is in the inputs of a
\* family other than the one its prefix names.
C3_RestrictedPruned ==
    order_pc = "returned" =>
        \A s \in Restricted : \A k \in OrderFamilies :
            s \notin Range(filtered_order[k].inputs)

\* C9 (as stated): every family of the returned order carries the product
\* types [sr, bt, pixel_qa] and the order carries format gtiff, also when a
\* family's input list is empty after pruning.
C9_ProductsOnEveryFamily ==
    order_pc = "returned" =>
        /\ filtered_order["format"] = "gtiff"
        /\ \A k \in OrderFamilies : filtered_order[k].products = prod_types

\* C9 (amended): every family of the returned order whose input list is not
\* empty carries [sr, bt, pixel_qa], a family whose input list is empty keeps
\* the products of the availability response, and the order carries format
\* gtiff.
C9_ProductsOnNonEmptyFamilies ==
    order_pc = "returned" =>
        /\ filtered_order["format"] = "gtiff"
        /\ \A k \in OrderFamilies :
               /\ filtered_order[k].inputs # <<>> =>
                      filtered_order[k].products = prod_types
               /\ filtered_order[k].inputs = <<>> =>
                      filtered_order[k].products = available_products[1][k].products

\* tm5_collection lost its only input to the pruning, etm7_collection kept
\* one.
C9_Witness ==
    /\ order_pc = "returned"
    /\ OrderFamilies = {"tm5_collection", "etm7_collection"}
    /\ available_products[1]["tm5_collection"].inputs = <<<<"LT05", "1">>>>
    /\ filtered_order["tm5_collection"].inputs = <<>>
    /\ filtered_order["etm7_collection"].inputs = <<<<"LE07", "1">>>>
    /\ filtered_order["etm7_collection"].products = prod_types

-----------------------------------------------------------------------------
(* Claims about the product filter                                         *)

\* The entry of a catalog line, and the tokens of the entry.
Entry(line) == Strip(line)

Tokens(line) == Split(Entry(line), "_")

\* The line has the tile key in it and a date field within [ymd1, ymd2].
Selected(line) ==
    /\ Contains(line, path_row)
    /\ Len(Tokens(line)) >= 4
    /\ StrLeq(ymd1, Tokens(line)[4])
    /\ StrLeq(Tokens(line)[4], ymd2)

\* The entries of the selected lines, in catalog order.
SelectedEntries ==
    LET kept == SelectSeq(catalog, Selected)
    IN  [i \in 1..Len(kept) |-> Entry(kept[i])]

\* Some line with the tile key in it has no token at position 3.
ShortMatch ==
    \E i \in 1..Len(catalog) :
        Contains(catalog[i], path_row) /\ Len(Tokens(catalog[i])) < 4

\* C4 (as stated): for every catalog file, tile key and date pair,
\* extract_products returns exactly the entries whose line contains the tile
\* key and whose date field d has ymd1 <= d <= ymd2, in catalog order.
C4_Filter_AnyCatalog ==
    filter_pc \notin {"idle", "call"} =>
        /\ filter_pc = "returned"
        /\ result = SelectedEntries

\* C4 (amended): the same, for catalog files in which every line that
\* contains the tile key has at least 4 '_'-separated tokens; on any other
\* catalog file extract_products raises IndexError and returns nothing.
C4_Filter ==
    filter_pc \notin {"idle", "call"} =>
        IF ShortMatch
        THEN filter_pc = "IndexError"
        ELSE /\ filter_pc = "returned"
             /\ result = SelectedEntries

\* A line dated at the start date and one dated at the end date are both
\* returned, in catalog order.
C4_Witness ==
    /\ filter_pc = "returned"
    /\ path_row = <<"0">>
    /\ ymd1 = <<"0">>
    /\ ymd2 = <<"1">>
    /\ Len(catalog) = 2
    /\ \A i \in 1..2 : Len(Tokens(catalog[i])) >= 4
    /\ Tokens(catalog[1])[4] = <<"1">>
    /\ Tokens(catalog[2])[4] = <<"0">>
    /\ result = <<Entry(catalog[1]), Entry(catalog[2])>>

-----------------------------------------------------------------------------
(* Claims about the archive unpacker                                       *)

Batch == 1..Len(archives)

Failing == {"bad_tar", "no_xml", "broken"}

\* C5 (as stated): every archive of the batch is handled on its own: a
\* well-formed one is extracted into target/tile/scene and its source is
\* deleted, one whose open, metadata lookup or extraction fails is skipped
\* and left in place, no failure stops the rest, and untar_scenes returns
\* without raising.
C5_Isolation_AnyTarget ==
    /\ unpack_pc # "raised"
    /\ unpack_pc = "returned" =>
           \A i \in Batch :
               /\ outcome[i] # "todo"
               /\ archives[i].kind = "ok" =>
                      /\ outcome[i] = "extracted"
                      /\ content[out_folder(archives[i].xml)] = "full"
                      /\ i \notin source_files
               /\ archives[i].kind \in Failing => i \in source_files

\* C5 (amended): the same, where a well-formed archive is extracted and
\* deleted if its target/tile/scene folder does not exist yet and can be
\* made; if the folder exists, or the target folder is missing, the archive
\* is skipped and left in place like a failing one.
C5_Isolation ==
    /\ unpack_pc # "raised"
    /\ unpack_pc = "returned" =>
           \A i \in Batch :
               /\ outcome[i] # "todo"
               /\ (archives[i].kind = "ok" /\ outcome[i] # "mkdir_failed") =>
                      /\ outcome[i] = "extracted"
                      /\ content[out_folder(archives[i].xml)] = "full"
                      /\ i \notin source_files
               /\ (archives[i].kind = "ok" /\ outcome[i] = "mkdir_failed") =>
                      /\ i \in source_files
                      /\ <<>> \notin dirs \/ out_folder(archives[i].xml) \in dirs
               /\ archives[i].kind \in Failing => i \in source_files

\* A corrupt archive came first and was left in place, the well-formed one
\* after it was extracted and deleted.
C5_Witness ==
    /\ unpack_pc = "returned"
    /\ Len(archives) = 2
    /\ archives[1].kind = "bad_tar"
    /\ archives[2].kind = "ok"
    /\ outcome = <<"open_failed", "extracted">>
    /\ source_files = {1}
    /\ content[out_folder(archives[2].xml)] = "full"

\* extractall was called on the archive and did not write every member.
StoppedPartWay(i) ==
    /\ archives[i].kind \in {"short", "broken"}
    /\ outcome[i] \in {"extracted", "extract_failed"}

\* C10 (as stated): an archive whose extraction stops part-way still has its
\* source archive deleted.
C10_DeletedAfterTruncation ==
    \A i \in Batch : StoppedPartWay(i) => i \notin source_files

\* C10 (amended): nothing verifies the extraction: the source archive is
\* deleted whenever extractall returns, also when it has written only part of
\* the members; when extractall raises part-way the source archive is left in
\* place, beside the partly filled scene folder.
C10_DeletedIffExtractallReturns ==
    \A i \in Batch :
        /\ StoppedPartWay(i) =>
               /\ content[out_folder(archives[i].xml)] = "partial"
               /\ out_folder(archives[i].xml) \in dirs
               /\ i \notin source_files <=> archives[i].kind = "short"
        /\ i \notin source_files <=> outcome[i] = "extracted"

\* One archive was cut short and is deleted, the other raised part-way and
\* is still there.
C10_Witness ==
    /\ unpack_pc = "returned"
    /\ Len(archives) = 2
    /\ archives[1].kind = "short"
    /\ archives[2].kind = "broken"
    /\ StoppedPartWay(1)
    /\ StoppedPartWay(2)
    /\ source_files = {2}

-----------------------------------------------------------------------------
(* Claims about the resume run                                             *)

\* The order identifiers as written in the jobs file, line by line.
WrittenIds ==
    SelectSeq(Split(jobs_file, "\n"), LAMBDA id : id # <<>>)

\* C6: for every jobs file, with or without a line break at its end, the
\* resume run starts the poller exactly once for each identifier listed, as
\* written on its line, in reverse line order, each only after the poller of
\* the identifier before has returned; empty lines start no poller.
C6_ResumeOrder ==
    resume_pc = "returned" => started = Reversed(WrittenIds)

-----------------------------------------------------------------------------
(* Claims about items missing from a status response                       *)

\* The names a status response lists.
Listed(resp) == Range(NamesOf(resp[1]))

\* C11: an awaited item whose name is missing from a poll cycle's response
\* is not downloaded in that cycle and is not in the working set the cycle
\* leaves; a name that is not awaited is neither downloaded nor awaited
\* again by any later cycle, whether or not the response lists it.  So the
\* poller can return with an item of the initial listing never downloaded.
C11_MissingDropped ==
    [][ (pc = "check" /\ item_status_resp' # None) =>
            /\ \A n \in Working \ Listed(item_status_resp') :
                   /\ downloads'[n] = downloads[n]
                   /\ n \notin Range(items_not_complete')
                   /\ pc' = "check" => n \notin Range(ordered_items_to_download')
            /\ \A n \in Names \ Working :
                   /\ downloads'[n] = downloads[n]
                   /\ n \notin Range(items_not_complete')
                   /\ pc' = "check" => n \notin Range(ordered_items_to_download')
      ]_vars

\* "b" was listed at the start, was missing from the first cycle's response
\* and reported complete in the second: the poller has returned and "b" was
\* never downloaded.
C11_Witness ==
    /\ ~repeated
    /\ pc = "done"
    /\ listing = <<"a", "b">>
    /\ queries = 3
    /\ history[1] = [name |-> "a", status |-> "pending"]
    /\ item_status_resp = Some(<< [name |-> "a", status |-> "complete"],
                                  [name |-> "b", status |-> "complete"] >>)
    /\ ordered_items_to_download = <<"a">>
    /\ downloads["a"] = 1
    /\ downloads["b"] = 0

=============================================================================
